---- MODULE Spec2Model ----
(***************************************************************************)
(* A model of the twilight http-proxy request pipeline (src/main.rs) and   *)
(* its response cache (src/cache.rs).                                      *)
(*                                                                         *)
(* Strings are TLA+ strings; the only operations used on them are Len,     *)
(* SubSeq and \o, so every string function below is computed character by  *)
(* character as the Rust code computes it.  Time is counted in ticks of    *)
(* 1/UnitsPerSec seconds so that Duration::as_secs() really truncates.     *)
(***************************************************************************)
EXTENDS Integers, Sequences, FiniteSets, Bags, TLC

(***************************************************************************)
(* Bounds of the model.                                                    *)
(***************************************************************************)
NumTasks == 2
MaxTime == 3
UnitsPerSec == 2

(***************************************************************************)
(* Program constants.                                                      *)
(***************************************************************************)
\* cache.rs:31, CACHE_DURATION in seconds (the environment supplies it;
\* the model runs with CACHE_DURATION=1).
CACHE_DURATION == 1

None == [some |-> FALSE]
Some(v) == [some |-> TRUE, val |-> v]

(***************************************************************************)
(* str primitives                                                          *)
(***************************************************************************)
CharAt(s, i) == SubSeq(s, i, i)

StartsWith(s, p) == Len(s) >= Len(p) /\ SubSeq(s, 1, Len(p)) = p

\* str::strip_prefix
StripPrefix(s, p) ==
    IF StartsWith(s, p) THEN Some(SubSeq(s, Len(p) + 1, Len(s))) ELSE None

\* str::contains
Contains(s, sub) ==
    \E i \in 1..(Len(s) - Len(sub) + 1) : SubSeq(s, i, i + Len(sub) - 1) = sub

\* str::split(sep) for a one character separator, collected
RECURSIVE SplitFrom(_, _, _, _)
SplitFrom(s, sep, start, i) ==
    IF i > Len(s) THEN << SubSeq(s, start, Len(s)) >>
    ELSE IF CharAt(s, i) = sep
         THEN << SubSeq(s, start, i - 1) >> \o SplitFrom(s, sep, i + 1, i + 1)
         ELSE SplitFrom(s, sep, start, i + 1)

Split(s, sep) == SplitFrom(s, sep, 1, 1)

\* Iterator::nth(n), zero based
Nth(seq, n) == IF n + 1 <= Len(seq) THEN Some(seq[n + 1]) ELSE None

Digits == <<"0", "1", "2", "3", "4", "5", "6", "7", "8", "9">>

IsDigit(c) == \E d \in 1..10 : Digits[d] = c

DigitVal(c) == (CHOOSE d \in 1..10 : Digits[d] = c) - 1

\* <uN as FromStr>::from_str: an optional leading '+', then at least one
\* decimal digit, accumulated with a checked multiply-add bounded by max.
RECURSIVE ParseDigits(_, _, _, _)
ParseDigits(s, i, acc, max) ==
    IF i > Len(s) THEN Some(acc)
    ELSE IF ~IsDigit(CharAt(s, i)) THEN None
    ELSE IF acc * 10 + DigitVal(CharAt(s, i)) > max THEN None
    ELSE ParseDigits(s, i + 1, acc * 10 + DigitVal(CharAt(s, i)), max)

ParseUnsigned(s, max) ==
    IF Len(s) = 0 THEN None
    ELSE IF CharAt(s, 1) = "+"
         THEN IF Len(s) = 1 THEN None ELSE ParseDigits(s, 2, 0, max)
         ELSE ParseDigits(s, 1, 0, max)

U8Max == 255

ParseU8(s) == ParseUnsigned(s, U8Max)

(***************************************************************************)
(* main.rs, normalize_path                                                 *)
(***************************************************************************)
normalize_path(request_path) ==
    LET stripped == StripPrefix(request_path, "/api") IN
    IF stripped.some
    THEN LET trimmed_path == stripped.val
             maybe_api_version == Nth(Split(trimmed_path, "/"), 1)
             version_number ==
                 IF maybe_api_version.some
                 THEN StripPrefix(maybe_api_version.val, "v")
                 ELSE None
         IN IF version_number.some /\ ParseU8(version_number.val).some
            THEN LET len == Len("/api/v") + Len(version_number.val)
                 IN << SubSeq(request_path, 1, len),
                       SubSeq(request_path, len + 1, Len(request_path)) >>
            ELSE << "/api", trimmed_path >>
    ELSE << "/api", request_path >>

(***************************************************************************)
(* main.rs:343, Path::try_from((method, trimmed_path)) of                  *)
(* twilight_http_ratelimiting, restricted to the route families the model  *)
(* sends: the path is split on '/', the empty first part of a path that    *)
(* starts with '/' is skipped, and the parts are matched against the route *)
(* patterns.  The method only separates routes the model does not use.     *)
(***************************************************************************)
IdMax == 1000000

parse_id(id) == ParseUnsigned(id, IdMax)

PathParts(path) ==
    LET all == Split(path, "/")
        skip == IF StartsWith(path, "/") THEN 1 ELSE 0
    IN SubSeq(all, skip + 1, Len(all))

PathTryFrom(method, path) ==
    LET parts == PathParts(path) IN
    IF Len(parts) = 2 /\ parts[1] = "invites" THEN Some("InvitesCode")
    ELSE IF Len(parts) = 2 /\ parts[1] = "users" THEN Some("UsersId")
    ELSE IF Len(parts) = 2 /\ parts[1] = "guilds"
         THEN IF parse_id(parts[2]).some THEN Some("GuildsId") ELSE None
    ELSE None

(***************************************************************************)
(* http::HeaderMap: a sequence of entries, one per header name, each with  *)
(* the values appended under that name in insertion order.                 *)
(***************************************************************************)
HeaderIndex(h, name) ==
    IF \E i \in 1..Len(h) : h[i].name = name
    THEN CHOOSE i \in 1..Len(h) : h[i].name = name
    ELSE 0

\* HeaderMap::append
HeaderAppend(h, name, value) ==
    LET i == HeaderIndex(h, name) IN
    IF i = 0 THEN Append(h, [name |-> name, values |-> << value >>])
    ELSE [h EXCEPT ![i].values = Append(@, value)]

\* HeaderMap::insert: the value replaces every value of the name
HeaderInsert(h, name, value) ==
    LET i == HeaderIndex(h, name) IN
    IF i = 0 THEN Append(h, [name |-> name, values |-> << value >>])
    ELSE [h EXCEPT ![i].values = << value >>]

\* HeaderMap::get: the first value of the name
HeaderGet(h, name) ==
    LET i == HeaderIndex(h, name) IN
    IF i = 0 THEN None ELSE Some(h[i].values[1])

\* a remove that drops one value of the name only
HeaderRemoveOne(h, name) ==
    LET i == HeaderIndex(h, name)
        last == Len(h)
    IN IF i = 0 THEN h
       ELSE IF Len(h[i].values) > 1
            THEN [h EXCEPT ![i].values = Tail(@)]
            ELSE [j \in 1..(last - 1) |-> IF j = i THEN h[last] ELSE h[j]]

\* HeaderMap::remove: the entry and all its values go; the entries vector
\* is compacted with swap_remove (the last entry takes the freed slot).
HeaderRemove(h, name) ==
    LET i == HeaderIndex(h, name)
        last == Len(h)
    IN IF i = 0 THEN h
       ELSE [j \in 1..(last - 1) |-> IF j = i THEN h[last] ELSE h[j]]

\* the HeaderMap hyper hands over for a list of received header lines
RECURSIVE HeaderMapFromPairs(_)
HeaderMapFromPairs(pairs) ==
    IF Len(pairs) = 0 THEN << >>
    ELSE LET n == Len(pairs)
         IN HeaderAppend(HeaderMapFromPairs(SubSeq(pairs, 1, n - 1)),
                         pairs[n][1], pairs[n][2])

\* <HeaderMap as IntoIterator>::into_iter: the first value of an entry is
\* yielded with Some(name), the further values of that name with None.
EntryIter(e) ==
    [j \in 1..Len(e.values) |->
        [name |-> IF j = 1 THEN Some(e.name) ELSE None, value |-> e.values[j]]]

RECURSIVE HeaderIntoIter(_)
HeaderIntoIter(h) ==
    IF Len(h) = 0 THEN << >>
    ELSE EntryIter(Head(h)) \o HeaderIntoIter(Tail(h))

\* number of times the line "name: value" occurs in a header map
HeaderCount(h, name, value) ==
    LET i == HeaderIndex(h, name) IN
    IF i = 0 THEN 0
    ELSE Cardinality({j \in 1..Len(h[i].values) : h[i].values[j] = value})

HeaderNames(h) == {h[i].name : i \in 1..Len(h)}

HeaderValues(h) == UNION {{h[i].values[j] : j \in 1..Len(h[i].values)} : i \in 1..Len(h)}

\* StatusCode::is_success
IsSuccess(status) == 300 > status /\ status >= 200

(***************************************************************************)
(* The inputs of the model: the requests clients send and the responses    *)
(* the upstream gives.                                                     *)
(***************************************************************************)
\* a request without query, headers or body
Bare(method, path) ==
    [method |-> method, path |-> path, query |-> None, lines |-> << >>,
     body |-> ""]

Requests ==
    { Bare("GET", "/api/v10/invites/ABCD"),
      Bare("GET", "/api/v10/users/1"),
      Bare("GET", "/api/v10/users/@me"),
      Bare("GET", "/api/v10/guilds/1"),
      Bare("OPTIONS", "/api/v10/guilds/1"),
      Bare("GET", "/foo"),
      Bare("GET", "/apix/v10/foo") }

\* the header lines of an upstream response, in the order received
RatelimitedLines ==
    << <<"content-type", "application/json">>,
       <<"x-ratelimit-bucket", "abcd">>,
       <<"x-ratelimit-remaining", "4">>,
       <<"set-cookie", "a=1">>,
       <<"x-ratelimit-reset", "1470173023">>,
       <<"x-ratelimit-remaining", "3">>,
       <<"x-ratelimit-reset-after", "1.5">>,
       <<"set-cookie", "b=2">>,
       <<"x-ratelimit-limit", "5">> >>

PlainLines ==
    << <<"x-ratelimit-remaining", "four">>,
       <<"content-type", "application/json">> >>

\* the header lines of a client that names its own bearer twice and sends
\* every hop-by-hop header
ClientLines ==
    << <<"host", "proxy.local">>,
       <<"authorization", "Bot B">>,
       <<"x-audit-log-reason", "a">>,
       <<"connection", "keep-alive, upgrade">>,
       <<"keep-alive", "timeout=5">>,
       <<"upgrade", "websocket">>,
       <<"authorization", "Bot C">>,
       <<"proxy-connection", "keep-alive">>,
       <<"transfer-encoding", "chunked">>,
       <<"x-audit-log-reason", "b">>,
       <<"upgrade", "h2c">> >>

\* requests for the health endpoint, and requests that differ in their
\* Authorization header, their query, their other headers and their body
ForwardRequests ==
    { Bare("GET", "/health"),
      Bare("POST", "/health"),
      Bare("GET", "/api/v10/users/1"),
      [method |-> "PATCH", path |-> "/api/v10/guilds/1",
       query |-> Some("reason=x"), lines |-> ClientLines,
       body |-> "{\"name\":\"n\"}"],
      [Bare("GET", "/api/v10/guilds/1") EXCEPT
         !.lines = << <<"authorization", "Bot caf<E9>">>,
                      <<"accept", "*/*">> >>] }

\* ratelimit_ok: whether RatelimitHeaders::from_pairs accepts the headers
Responses ==
    { [status |-> 200, lines |-> RatelimitedLines, ratelimit_ok |-> TRUE,
       body |-> "{\"code\":\"ABCD\"}"],
      [status |-> 404, lines |-> PlainLines, ratelimit_ok |-> FALSE,
       body |-> "{\"message\":\"Unknown\"}"],
      [status |-> 300, lines |-> RatelimitedLines, ratelimit_ok |-> TRUE,
       body |-> "moved"] }

BucketHeaders ==
    << "x-ratelimit-bucket", "x-ratelimit-remaining",
       "x-ratelimit-reset", "x-ratelimit-reset-after" >>

(***************************************************************************)
(* State                                                                   *)
(***************************************************************************)
VARIABLES
    now,        \* Instant::now(), in ticks
    users,      \* Cache.users:   key -> CachedResponse
    invites,    \* Cache.invites: key -> CachedResponse
    tasks,      \* the bag of handle_request activations: for each, where
                \* it is suspended, its locals and its outcome
    reaper_pc,  \* where the reaper is inside one round of its loop
    completed,  \* history: canonical route -> time its last successful
                \* fetch (status 2xx/404, body read) finished
    gauge       \* the cache-size gauges, one per namespace, as last set
                \* (feature expose-metrics)

vars == << now, users, invites, tasks, reaper_pc, completed, gauge >>

\* Duration::as_secs
AsSecs(d) == d \div UnitsPerSec

\* Instant - Instant (saturating)
Elapsed(later, earlier) == IF later >= earlier THEN later - earlier ELSE 0

EmptyMap == [k \in {} |-> None]

(***************************************************************************)
(* cache.rs                                                                *)
(***************************************************************************)
\* CachedResponse::new
CachedResponseNew(bytes, headers, statuscode) ==
    [cached_at |-> now, bytes |-> bytes, headers |-> headers,
     statuscode |-> statuscode]

\* fn get with the comparison off by one
getOffByOne(cache, key) ==
    IF key \in DOMAIN cache
       /\ AsSecs(Elapsed(now, cache[key].cached_at)) <= CACHE_DURATION
    THEN Some([bytes |-> cache[key].bytes, headers |-> cache[key].headers,
               statuscode |-> cache[key].statuscode])
    ELSE None

\* fn get
get(cache, key) ==
    IF key \in DOMAIN cache
       /\ AsSecs(Elapsed(now, cache[key].cached_at)) < CACHE_DURATION
    THEN Some([bytes |-> cache[key].bytes, headers |-> cache[key].headers,
               statuscode |-> cache[key].statuscode])
    ELSE None

\* an insert that keeps the timestamp of the entry it replaces
insertKeepsCachedAt(cache, key, value, headers, statuscode) ==
    [k \in DOMAIN cache \cup {key} |->
        IF k = key
        THEN [CachedResponseNew(value, headers, statuscode) EXCEPT
                !.cached_at = IF key \in DOMAIN cache
                              THEN cache[key].cached_at ELSE now]
        ELSE cache[k]]

\* fn insert
insert(cache, key, value, headers, statuscode) ==
    [k \in DOMAIN cache \cup {key} |->
        IF k = key THEN CachedResponseNew(value, headers, statuscode)
        ELSE cache[k]]

\* a sweep that keeps an entry through its whole last second
clean_cacheKeepsBoundary(cache) ==
    LET keep == {k \in DOMAIN cache :
                    AsSecs(Elapsed(now, cache[k].cached_at)) <= CACHE_DURATION}
    IN [k \in keep |-> cache[k]]

\* fn clean_cache
clean_cache(cache) ==
    LET keep == {k \in DOMAIN cache :
                    AsSecs(Elapsed(now, cache[k].cached_at)) < CACHE_DURATION}
    IN [k \in keep |-> cache[k]]

\* Cache::get_user
get_user(key) == get(users, key)

\* Cache::get_invite
get_invite(key) == get(users, key)

\* Cache::insert_user: the users map afterwards
insert_user(key, value, headers, statuscode) ==
    insert(users, key, value, headers, statuscode)

\* Cache::insert_invite: the invites map afterwards
insert_invite(key, value, headers, statuscode) ==
    insert(invites, key, value, headers, statuscode)

(***************************************************************************)
(* main.rs, handle_request                                                 *)
(***************************************************************************)
NoResponse == [status |-> 0, headers |-> << >>, body |-> ""]

NoResult == [kind |-> "none", error |-> "", response |-> NoResponse]

Ok(response) == [kind |-> "Ok", error |-> "", response |-> response]

Err(error) == [kind |-> "Err", error |-> error, response |-> NoResponse]

\* no request went upstream
NoRequest == [method |-> "", uri |-> "", headers |-> << >>, body |-> ""]

Arriving ==
    [pc |-> "arriving",         \* where the task is suspended
     method |-> "", request_path |-> "", api_path |-> "", trimmed_path |-> "",
     path |-> "", api_route |-> "",
     lookup |-> "none",         \* which Cache getter ran
     cached_reply |-> None,     \* what it returned
     seen |-> "absent",         \* what the getter found under the key:
                                \* "absent", or "fresh" / "stale" by age
     prior |-> FALSE,           \* a successful fetch of this canonical route
                                \* finished less than CACHE_DURATION before
     ticket |-> FALSE,          \* wait_for_ticket returned a sender
     uri |-> "",                \* the URI of the upstream request
     sent |-> 0,                \* client.request calls
     reports |-> << >>,         \* header_sender.headers calls, in order
     parts |-> NoResponse,      \* the upstream response head and its body
     inserted |-> "none",       \* which Cache insert ran
     stored |-> << >>,          \* the headers handed to it
     result |-> NoResult,
     handler |-> "handle_request",  \* the arm of the dispatch
     token |-> "",              \* the bearer handed to handle_request
     query |-> None,            \* incoming.uri().query()
     headers |-> << >>,         \* the request's header map
     body |-> "",               \* the request's body
     upstream |-> NoRequest]    \* the request handed to client.request

\* a method match with an arm for OPTIONS
SupportedMethodsAndOptions ==
    {"DELETE", "GET", "OPTIONS", "PATCH", "POST", "PUT"}

\* lines 325-337
SupportedMethods == {"DELETE", "GET", "PATCH", "POST", "PUT"}

\* lines 361-369: the getter the route selects
LookupFor(path, api_route) ==
    IF path = "InvitesCode" THEN "get_invite"
    ELSE IF path = "UsersId" /\ ~Contains(api_route, "@me") THEN "get_user"
    ELSE "none"

CachedReply(path, api_route) ==
    IF LookupFor(path, api_route) = "get_invite" THEN get_invite(api_route)
    ELSE IF LookupFor(path, api_route) = "get_user" THEN get_user(api_route)
    ELSE None

\* the map each getter reads (cache.rs:97-103)
MapReadBy(lookup) == users

\* lines 373-379: the headers the response builder ends up with
RECURSIVE BuilderHeaders(_, _)
BuilderHeaders(iter, acc) ==
    IF Len(iter) = 0 THEN acc
    ELSE LET item == Head(iter)
         IN BuilderHeaders(Tail(iter),
                IF item.name.some
                THEN HeaderAppend(acc, item.name.val, item.value)
                ELSE acc)

\* a builder that refuses the reply
BuilderBodyRefused(statuscode, headers, bytes) ==
    [ok |-> FALSE,
     response |-> [status |-> statuscode, headers |-> headers, body |-> bytes]]

\* lines 380-385: builder.body(..); a status, header names and header
\* values that are already typed never make the builder fail
BuilderBody(statuscode, headers, bytes) ==
    [ok |-> TRUE,
     response |-> [status |-> statuscode, headers |-> headers, body |-> bytes]]

ReplyFromCache(cached) ==
    BuilderBody(cached.statuscode,
                BuilderHeaders(HeaderIntoIter(cached.headers), << >>),
                cached.bytes)

\* the rewrite that leaves the Upgrade header in place
RewriteHeadersKeepsUpgrade(headers, token) ==
    LET authorized == HeaderInsert(headers, "authorization", token)
        hosted == HeaderInsert(authorized, "host", "discord.com")
    IN HeaderRemove(
         HeaderRemove(
           HeaderRemove(
             HeaderRemove(hosted, "connection"),
             "keep-alive"),
           "proxy-connection"),
         "transfer-encoding")

\* lines 396-411: the headers of the upstream request
RewriteHeaders(headers, token) ==
    LET authorized == HeaderInsert(headers, "authorization", token)
        hosted == HeaderInsert(authorized, "host", "discord.com")
    IN HeaderRemove(
         HeaderRemove(
           HeaderRemove(
             HeaderRemove(
               HeaderRemove(hosted, "connection"),
               "keep-alive"),
             "proxy-connection"),
           "transfer-encoding"),
         "upgrade")

\* lines 413-418
UriString(api_route, query) ==
    IF query.some
    THEN "https://discord.com" \o api_route \o "?" \o query.val
    ELSE "https://discord.com" \o api_route

\* lines 413-426: Uri::from_str refuses a space (among others)
UriFromStr(uri_string) ==
    IF Contains(uri_string, " ") THEN None ELSE Some(uri_string)

\* the same test taking every status from 200 on
BufferedFrom200(status) == status >= 200

\* line 470
Buffered(status) == IsSuccess(status) \/ status = 404

\* lines 475-479
StripBucketHeaders(headers) ==
    HeaderRemove(HeaderRemove(HeaderRemove(HeaderRemove(headers,
        "x-ratelimit-bucket"), "x-ratelimit-remaining"),
        "x-ratelimit-reset"), "x-ratelimit-reset-after")

\* the same without the "@me" test
InsertForAnyUser(path, api_route) ==
    IF path = "InvitesCode" THEN "insert_invite"
    ELSE IF path = "UsersId" THEN "insert_user"
    ELSE "none"

\* lines 481-490: the insert the route selects
InsertFor(path, api_route) ==
    IF path = "InvitesCode" THEN "insert_invite"
    ELSE IF path = "UsersId" /\ ~Contains(api_route, "@me") THEN "insert_user"
    ELSE "none"

\* CACHE_DURATION seconds, in ticks
Ttl == CACHE_DURATION * UnitsPerSec

Seen(cache, key) ==
    IF key \notin DOMAIN cache THEN "absent"
    ELSE IF now - cache[key].cached_at < Ttl THEN "fresh"
    ELSE "stale"

\* the bag of tasks once task r has moved on to r2
Moved(r, r2) == (tasks (-) SetToBag({r})) (+) SetToBag({r2})

Running == BagToSet(tasks)

\* lines 323-386: a request arrives and its task runs up to the first
\* suspension
HandleRequest(token, request) ==
    LET arrived == [Arriving EXCEPT !.method = request.method,
                                    !.request_path = request.path,
                                    !.token = token,
                                    !.query = request.query,
                                    !.headers =
                                        HeaderMapFromPairs(request.lines),
                                    !.body = request.body]
    IN
    IF request.method \notin SupportedMethods
    THEN [arrived EXCEPT !.pc = "done", !.result = Err("InvalidMethod")]
    ELSE
    LET norm == normalize_path(request.path)
        api_path == norm[1]
        trimmed_path == norm[2]
        path == PathTryFrom(request.method, trimmed_path)
        named == [arrived EXCEPT !.api_path = api_path,
                                 !.trimmed_path = trimmed_path]
    IN
    IF ~path.some
    THEN [named EXCEPT !.pc = "done", !.result = Err("InvalidPath")]
    ELSE
    LET api_route == api_path \o trimmed_path
        lookup == LookupFor(path.val, api_route)
        cached_reply == CachedReply(path.val, api_route)
        looked == [named EXCEPT
                     !.path = path.val,
                     !.api_route = api_route,
                     !.lookup = lookup,
                     !.cached_reply = cached_reply,
                     !.seen =
                         IF lookup = "none" THEN "absent"
                         ELSE Seen(MapReadBy(lookup), api_route),
                     !.prior =
                         /\ api_route \in DOMAIN completed
                         /\ now - completed[api_route] < Ttl]
        reply == IF cached_reply.some
                 THEN ReplyFromCache(cached_reply.val)
                 ELSE [ok |-> FALSE, response |-> NoResponse]
    IN
    IF cached_reply.some /\ reply.ok
    THEN [looked EXCEPT !.pc = "done", !.result = Ok(reply.response)]
    ELSE [looked EXCEPT !.pc = "ticket"]

\* header values that are not visible ASCII; <E9> stands for the byte 0xE9
OpaqueValues == {"Bot caf<E9>"}

\* HeaderValue::to_str
ToStr(value) == IF value \in OpaqueValues THEN None ELSE Some(value)

\* lines 161-164: the Authorization header the registry is asked about
AuthorizationOf(headers) ==
    LET value == HeaderGet(headers, "authorization") IN
    IF value.some THEN ToStr(value.val) ELSE None

\* the process-default bearer, loaded once from configuration
DISCORD_TOKEN == "Bot default"

\* RatelimiterMap::get_or_insert: the effective bearer is the supplied one,
\* or the process default when none was supplied
get_or_insert(token) == IF token.some THEN token.val ELSE DISCORD_TOKEN

\* lines 527-531
handle_health ==
    [status |-> 200, headers |-> << >>, body |-> "Proxy running!"]

\* a service function that answers from the cache only a GET without query
DispatchCachesPlainGetOnly(request) ==
    LET supplied == AuthorizationOf(HeaderMapFromPairs(request.lines))
        handled == HandleRequest(get_or_insert(supplied), request)
    IN
    IF request.path = "/health"
    THEN [Arriving EXCEPT !.pc = "done",
                          !.handler = "handle_health",
                          !.method = request.method,
                          !.request_path = request.path,
                          !.result = Ok(handle_health)]
    ELSE IF /\ request.method # "GET" \/ request.query.some
            /\ handled.cached_reply.some
    THEN [handled EXCEPT !.pc = "ticket", !.cached_reply = None,
                         !.result = NoResult]
    ELSE handled

\* a service function that keeps the cache for the clients of the default
\* bearer: a client naming its own bearer always goes upstream
DispatchOwnBearerUncached(request) ==
    LET supplied == AuthorizationOf(HeaderMapFromPairs(request.lines))
        handled == HandleRequest(get_or_insert(supplied), request)
    IN
    IF request.path = "/health"
    THEN [Arriving EXCEPT !.pc = "done",
                          !.handler = "handle_health",
                          !.method = request.method,
                          !.request_path = request.path,
                          !.result = Ok(handle_health)]
    ELSE IF supplied.some /\ handled.cached_reply.some
    THEN [handled EXCEPT !.pc = "ticket", !.cached_reply = None,
                         !.result = NoResult]
    ELSE handled

\* lines 160-182: the service function; the path alone selects the arm
Dispatch(request) ==
    LET token == get_or_insert(
                     AuthorizationOf(HeaderMapFromPairs(request.lines)))
    IN
    IF request.path = "/health"
    THEN [Arriving EXCEPT !.pc = "done",
                          !.handler = "handle_health",
                          !.method = request.method,
                          !.request_path = request.path,
                          !.result = Ok(handle_health)]
    ELSE HandleRequest(token, request)

Receive(request) ==
    /\ BagCardinality(tasks) < NumTasks
    /\ tasks' = tasks (+) SetToBag({Dispatch(request)})
    /\ UNCHANGED << now, users, invites, reaper_pc, completed, gauge >>

\* lines 388-432: the ticket is granted, the request is rewritten and sent
TicketGranted(r) ==
    /\ r.pc = "ticket"
    /\ LET uri == UriFromStr(UriString(r.api_route, r.query))
       IN tasks' = Moved(r,
             IF uri.some
             THEN [r EXCEPT !.pc = "upstream", !.ticket = TRUE,
                            !.uri = uri.val, !.sent = @ + 1,
                            !.upstream =
                                [method |-> r.method,
                                 uri |-> uri.val,
                                 headers |-> RewriteHeaders(r.headers,
                                                            r.token),
                                 body |-> r.body]]
             ELSE [r EXCEPT !.pc = "done", !.ticket = TRUE,
                            !.result = Err("InvalidURI")])
    /\ UNCHANGED << now, users, invites, reaper_pc, completed, gauge >>

\* a failure of wait_for_ticket that is logged and then ignored
TicketFailedThenSent(r) ==
    /\ r.pc = "ticket"
    /\ tasks' = Moved(r, [r EXCEPT !.pc = "upstream", !.sent = @ + 1])
    /\ UNCHANGED << now, users, invites, reaper_pc, completed, gauge >>

\* lines 388-394: wait_for_ticket fails
TicketFailed(r) ==
    /\ r.pc = "ticket"
    /\ tasks' = Moved(r, [r EXCEPT !.pc = "done",
                                   !.result = Err("AcquiringTicket")])
    /\ UNCHANGED << now, users, invites, reaper_pc, completed, gauge >>

\* lines 432-438: client.request fails
UpstreamFailed(r) ==
    /\ r.pc = "upstream"
    /\ tasks' = Moved(r, [r EXCEPT !.pc = "done",
                                   !.result = Err("RequestIssue")])
    /\ UNCHANGED << now, users, invites, reaper_pc, completed, gauge >>

\* lines 432-472 and 500: the response head arrives, the ratelimit
\* headers are reported, and the response is either returned as it is or
\* its body is awaited
UpstreamResponded(r, resp) ==
    /\ r.pc = "upstream"
    /\ LET parts == [status |-> resp.status,
                     headers |-> HeaderMapFromPairs(resp.lines),
                     body |-> resp.body]
           ratelimit_headers == IF resp.ratelimit_ok THEN "Some" ELSE "None"
           reported == [r EXCEPT !.reports = Append(@, ratelimit_headers),
                                 !.parts = parts]
       IN tasks' = Moved(r,
             IF Buffered(resp.status)
             THEN [reported EXCEPT !.pc = "body"]
             ELSE [reported EXCEPT !.pc = "done", !.result = Ok(parts)])
    /\ UNCHANGED << now, users, invites, reaper_pc, completed, gauge >>

\* lines 472-492: the body is read, the snapshot is stored
WriteThrough(r) ==
    /\ LET parts == r.parts
           vec == parts.body
           headers == StripBucketHeaders(parts.headers)
           which == InsertFor(r.path, r.api_route)
       IN /\ users' = IF which = "insert_user"
                       THEN insert_user(r.api_route, vec, headers,
                                        parts.status)
                       ELSE users
          /\ invites' = IF which = "insert_invite"
                         THEN insert_invite(r.api_route, vec, headers,
                                            parts.status)
                         ELSE invites
          /\ tasks' = Moved(r, [r EXCEPT
                                  !.pc = "done",
                                  !.inserted = which,
                                  !.stored =
                                      IF which = "none" THEN << >> ELSE headers,
                                  !.result = Ok(parts)])
    /\ completed' = [k \in DOMAIN completed \cup {r.api_route} |->
                        IF k = r.api_route THEN now ELSE completed[k]]
    /\ UNCHANGED << now, reaper_pc, gauge >>

BodyRead(r) ==
    /\ r.pc = "body"
    /\ WriteThrough(r)

\* lines 493-496: reading the body fails
BodyFailed(r) ==
    /\ r.pc = "body"
    /\ tasks' = Moved(r, [r EXCEPT !.pc = "done",
                                   !.result = Err("RequestIssue")])
    /\ UNCHANGED << now, users, invites, reaper_pc, completed, gauge >>

\* lines 388, 432, 472: the server drops the future of a request at one of
\* its await points (the client went away); the locals of handle_request,
\* header_sender among them, are dropped and no later line runs
Dropped(r) ==
    /\ r.pc \in {"ticket", "upstream", "body"}
    /\ tasks' = Moved(r, [r EXCEPT !.pc = "dropped"])
    /\ UNCHANGED << now, users, invites, reaper_pc, completed, gauge >>

(***************************************************************************)
(* cache.rs, reaper: one round sweeps invites, then users                  *)
(***************************************************************************)
ReaperSweepInvites ==
    /\ reaper_pc = "tick"
    /\ invites' = clean_cache(invites)
    /\ reaper_pc' = "users"
    /\ UNCHANGED << now, users, tasks, completed, gauge >>

ReaperSweepUsers ==
    /\ reaper_pc = "users"
    /\ users' = clean_cache(users)
    /\ reaper_pc' = "tick"
    /\ UNCHANGED << now, invites, tasks, completed, gauge >>

\* the clock advances
Tick ==
    /\ now < MaxTime
    /\ now' = now + 1
    /\ UNCHANGED << users, invites, tasks, reaper_pc, completed, gauge >>

Init ==
    /\ now = 0
    /\ users = EmptyMap
    /\ invites = EmptyMap
    /\ tasks = EmptyBag
    /\ reaper_pc = "tick"
    /\ completed = EmptyMap
    /\ gauge = [users |-> 0, invites |-> 0]

Next ==
    \/ \E request \in Requests : Receive(request)
    \/ \E r \in Running : TicketGranted(r)
    \/ \E r \in Running : TicketFailed(r)
    \/ \E r \in Running : UpstreamFailed(r)
    \/ \E r \in Running, resp \in Responses : UpstreamResponded(r, resp)
    \/ \E r \in Running : BodyRead(r)
    \/ \E r \in Running : BodyFailed(r)
    \/ ReaperSweepInvites
    \/ ReaperSweepUsers
    \/ Tick

Spec == Init /\ [][Next]_vars

\* the requests for the two cached routes
CachedRequests ==
    { Bare("GET", "/api/v10/invites/ABCD"),
      Bare("GET", "/api/v10/users/1") }

NextReaper ==
    \/ \E request \in CachedRequests : Receive(request)
    \/ \E r \in Running : TicketGranted(r)
    \/ \E r \in Running : TicketFailed(r)
    \/ \E r \in Running : UpstreamFailed(r)
    \/ \E r \in Running, resp \in Responses : UpstreamResponded(r, resp)
    \/ \E r \in Running : BodyRead(r)
    \/ \E r \in Running : BodyFailed(r)
    \/ ReaperSweepInvites
    \/ ReaperSweepUsers
    \/ Tick

\* the reaper task loops for ever on an interval that keeps firing, and the
\* runtime keeps scheduling it: neither of its sweeps waits for ever
SpecReaper ==
    /\ Init
    /\ [][NextReaper]_vars
    /\ WF_vars(ReaperSweepInvites)
    /\ WF_vars(ReaperSweepUsers)

(***************************************************************************)
(* cache.rs, the two RwLocks: the same program with every acquisition and  *)
(* release of a lock as a step of its own.  A guard lives from the call    *)
(* of read() or write() to the end of its scope, so what a task holds      *)
(* follows from where it is.                                               *)
(***************************************************************************)
\* lines 97-103: the lock each getter passes to get
LockOfGetter(lookup) == IF lookup \in {"get_user", "get_invite"}
                        THEN "users" ELSE "none"

\* lines 73-95: the lock each insert passes to insert
LockOfInsert(which) == IF which = "insert_user" THEN "users"
                       ELSE IF which = "insert_invite" THEN "invites"
                       ELSE "none"

\* lines 133-160: the guards a request task holds at each position
HeldByTask(r) ==
    IF r.pc = "get_held"
    THEN {[lock |-> LockOfGetter(r.lookup), mode |-> "read"]}
    ELSE IF r.pc = "insert_held"
    THEN {[lock |-> LockOfInsert(InsertFor(r.path, r.api_route)),
           mode |-> "write"]}
    ELSE {}

\* a reaper whose guard on invites lives until the end of the round
HeldByReaperToEndOfRound(pc) ==
    IF pc = "invites_held" THEN {[lock |-> "invites", mode |-> "write"]}
    ELSE IF pc = "users" THEN {[lock |-> "invites", mode |-> "write"]}
    ELSE IF pc = "users_held" THEN {[lock |-> "invites", mode |-> "write"],
                                    [lock |-> "users", mode |-> "write"]}
    ELSE {}

\* lines 114-115, 127-131: the guards the reaper holds at each position
HeldByReaper(pc) ==
    IF pc = "invites_held" THEN {[lock |-> "invites", mode |-> "write"]}
    ELSE IF pc = "users_held" THEN {[lock |-> "users", mode |-> "write"]}
    ELSE {}

\* every guard alive
Guards == HeldByReaper(reaper_pc) \cup UNION {HeldByTask(r) : r \in Running}

\* RwLock::read returns while no writer holds the lock
CanRead(lock) == [lock |-> lock, mode |-> "write"] \notin Guards

\* RwLock::write returns while nobody holds the lock
CanWrite(lock) == \A g \in Guards : g.lock # lock

\* lines 361-369: a request for a cached route reaches its getter
ReceiveLocked(request) ==
    /\ BagCardinality(tasks) < NumTasks
    /\ LET arrived == Dispatch(request) IN
       tasks' = tasks (+) SetToBag({
          IF arrived.lookup = "none" THEN arrived
          ELSE [arrived EXCEPT !.pc = "get_wait", !.cached_reply = None,
                               !.seen = "absent", !.prior = FALSE,
                               !.result = NoResult]})
    /\ UNCHANGED << now, users, invites, reaper_pc, completed, gauge >>

\* line 137: cache.read()
GetLock(r) ==
    /\ r.pc = "get_wait"
    /\ CanRead(LockOfGetter(r.lookup))
    /\ tasks' = Moved(r, [r EXCEPT !.pc = "get_held"])
    /\ UNCHANGED << now, users, invites, reaper_pc, completed, gauge >>

\* lines 137-146: the entry is read under the guard, the guard is dropped
\* and handle_request goes on to its reply or to wait_for_ticket
GetDone(r) ==
    /\ r.pc = "get_held"
    /\ tasks' = Moved(r, HandleRequest(r.token,
                                       Bare(r.method, r.request_path)))
    /\ UNCHANGED << now, users, invites, reaper_pc, completed, gauge >>

\* lines 472-492: the body is read; a response to store goes to its insert
BodyBuffered(r) ==
    /\ r.pc = "body"
    /\ IF InsertFor(r.path, r.api_route) = "none"
       THEN WriteThrough(r)
       ELSE /\ tasks' = Moved(r, [r EXCEPT !.pc = "insert_wait"])
            /\ UNCHANGED << now, users, invites, reaper_pc, completed, gauge >>

\* line 157: cache.write()
InsertLock(r) ==
    /\ r.pc = "insert_wait"
    /\ CanWrite(LockOfInsert(InsertFor(r.path, r.api_route)))
    /\ tasks' = Moved(r, [r EXCEPT !.pc = "insert_held"])
    /\ UNCHANGED << now, users, invites, reaper_pc, completed, gauge >>

\* lines 156-159: the entry is stored under the guard, the guard is dropped
InsertDone(r) ==
    /\ r.pc = "insert_held"
    /\ WriteThrough(r)

\* line 129, for invites
ReaperLockInvites ==
    /\ reaper_pc = "tick"
    /\ CanWrite("invites")
    /\ reaper_pc' = "invites_held"
    /\ UNCHANGED << now, users, invites, tasks, completed, gauge >>

\* lines 130-131, for invites
ReaperRetainInvites ==
    /\ reaper_pc = "invites_held"
    /\ invites' = clean_cache(invites)
    /\ reaper_pc' = "users"
    /\ UNCHANGED << now, users, tasks, completed, gauge >>

\* line 129, for users
ReaperLockUsers ==
    /\ reaper_pc = "users"
    /\ CanWrite("users")
    /\ reaper_pc' = "users_held"
    /\ UNCHANGED << now, users, invites, tasks, completed, gauge >>

\* lines 130-131, for users
ReaperRetainUsers ==
    /\ reaper_pc = "users_held"
    /\ users' = clean_cache(users)
    /\ reaper_pc' = "tick"
    /\ UNCHANGED << now, invites, tasks, completed, gauge >>

NextLocks ==
    \/ \E request \in CachedRequests : ReceiveLocked(request)
    \/ \E r \in Running : GetLock(r)
    \/ \E r \in Running : GetDone(r)
    \/ \E r \in Running : TicketGranted(r)
    \/ \E r \in Running, resp \in Responses : UpstreamResponded(r, resp)
    \/ \E r \in Running : BodyBuffered(r)
    \/ \E r \in Running : InsertLock(r)
    \/ \E r \in Running : InsertDone(r)
    \/ ReaperLockInvites
    \/ ReaperRetainInvites
    \/ ReaperLockUsers
    \/ ReaperRetainUsers
    \/ Tick

SpecLocks == Init /\ [][NextLocks]_vars

\* requests for a cached route from a client with and a client without a
\* bearer of its own
SharedRequests ==
    { Bare("GET", "/api/v10/users/1"),
      [Bare("GET", "/api/v10/users/1") EXCEPT
         !.lines = << <<"authorization", "Bot B">> >>] }

\* the same program serving those clients, every request going well
NextShared ==
    \/ \E request \in SharedRequests : Receive(request)
    \/ \E r \in Running : TicketGranted(r)
    \/ \E r \in Running, resp \in Responses : UpstreamResponded(r, resp)
    \/ \E r \in Running : BodyRead(r)
    \/ ReaperSweepInvites
    \/ ReaperSweepUsers
    \/ Tick

SpecShared == Init /\ [][NextShared]_vars

\* requests for a cached route that differ in method and query
MethodRequests ==
    { Bare("GET", "/api/v10/users/1"),
      [Bare("DELETE", "/api/v10/users/1") EXCEPT
         !.query = Some("with_counts=true")] }

\* the responses the cache stores
StoredResponses == {resp \in Responses : Buffered(resp.status)}

\* the same program serving those clients, every request going well and
\* every response one to store
NextMethods ==
    \/ \E request \in MethodRequests : Receive(request)
    \/ \E r \in Running : TicketGranted(r)
    \/ \E r \in Running, resp \in StoredResponses :
          UpstreamResponded(r, resp)
    \/ \E r \in Running : BodyRead(r)
    \/ ReaperSweepInvites
    \/ ReaperSweepUsers
    \/ Tick

SpecMethods == Init /\ [][NextMethods]_vars

(***************************************************************************)
(* cache.rs with the feature expose-metrics: an insert increments the      *)
(* gauge of its namespace and then stores; the reaper sets both gauges     *)
(* after its two sweeps.                                                   *)
(***************************************************************************)
\* the gauge an insert increments
GaugeOfInsert(which) == IF which = "insert_user" THEN "users"
                        ELSE "invites"

\* main.rs 472-488, cache.rs 80-81 / 92-93: the body is read and
\* increment_gauge! runs
BodyCounted(r) ==
    /\ r.pc = "body"
    /\ IF InsertFor(r.path, r.api_route) = "none"
       THEN WriteThrough(r)
       ELSE /\ tasks' = Moved(r, [r EXCEPT !.pc = "counted"])
            /\ gauge' = [gauge EXCEPT
                 ![GaugeOfInsert(InsertFor(r.path, r.api_route))] = @ + 1]
            /\ UNCHANGED << now, users, invites, reaper_pc, completed >>

\* cache.rs 82 / 94: insert runs
InsertCounted(r) ==
    /\ r.pc = "counted"
    /\ WriteThrough(r)

\* line 115, followed by the gauges
ReaperSweepUsersMetered ==
    /\ reaper_pc = "users"
    /\ users' = clean_cache(users)
    /\ reaper_pc' = "gauge_invites"
    /\ UNCHANGED << now, invites, tasks, completed, gauge >>

\* lines 119-122: the length is read under the read lock and the gauge set
ReaperGaugeInvites ==
    /\ reaper_pc = "gauge_invites"
    /\ gauge' = [gauge EXCEPT !.invites = Cardinality(DOMAIN invites)]
    /\ reaper_pc' = "gauge_users"
    /\ UNCHANGED << now, users, invites, tasks, completed >>

\* lines 123-126
ReaperGaugeUsers ==
    /\ reaper_pc = "gauge_users"
    /\ gauge' = [gauge EXCEPT !.users = Cardinality(DOMAIN users)]
    /\ reaper_pc' = "tick"
    /\ UNCHANGED << now, users, invites, tasks, completed >>

NextMetrics ==
    \/ \E request \in CachedRequests : Receive(request)
    \/ \E r \in Running : TicketGranted(r)
    \/ \E r \in Running, resp \in Responses : UpstreamResponded(r, resp)
    \/ \E r \in Running : BodyCounted(r)
    \/ \E r \in Running : InsertCounted(r)
    \/ ReaperSweepInvites
    \/ ReaperSweepUsersMetered
    \/ ReaperGaugeInvites
    \/ ReaperGaugeUsers
    \/ Tick

SpecMetrics == Init /\ [][NextMetrics]_vars

\* the same program with clients that may go away before they are answered
NextCancel ==
    \/ \E request \in Requests : Receive(request)
    \/ \E r \in Running : TicketGranted(r)
    \/ \E r \in Running : TicketFailed(r)
    \/ \E r \in Running : UpstreamFailed(r)
    \/ \E r \in Running, resp \in Responses : UpstreamResponded(r, resp)
    \/ \E r \in Running : BodyRead(r)
    \/ \E r \in Running : BodyFailed(r)
    \/ \E r \in Running : Dropped(r)
    \/ ReaperSweepInvites
    \/ ReaperSweepUsers
    \/ Tick

SpecCancel == Init /\ [][NextCancel]_vars

\* the same program serving clients that send headers, queries and bodies
NextForward ==
    \/ \E request \in ForwardRequests : Receive(request)
    \/ \E r \in Running : TicketGranted(r)
    \/ \E r \in Running : TicketFailed(r)
    \/ \E r \in Running : UpstreamFailed(r)
    \/ \E r \in Running, resp \in Responses : UpstreamResponded(r, resp)
    \/ \E r \in Running : BodyRead(r)
    \/ \E r \in Running : BodyFailed(r)
    \/ ReaperSweepInvites
    \/ ReaperSweepUsers
    \/ Tick

SpecForward == Init /\ [][NextForward]_vars

(***************************************************************************)
(* Properties                                                              *)
(***************************************************************************)
Namespaces == {users, invites}

\* a route the cache is meant to serve: an invite, or a user that is not
\* the caller itself
CacheableRoute(r) ==
    \/ r.path = "InvitesCode"
    \/ r.path = "UsersId" /\ ~Contains(r.api_route, "@me")

FreshIn(cache, key) ==
    key \in DOMAIN cache /\ now - cache[key].cached_at < Ttl

\* C1: a GET for a cacheable canonical route that arrives less than
\* CACHE_DURATION after a successful fetch (status 2xx or 404, body read) of
\* the same route is answered from the cache: it takes no ticket and sends
\* nothing upstream, so the two requests cost one upstream request.
C1_SecondGetServedFromCache ==
    \A r \in Running :
        (r.method = "GET" /\ CacheableRoute(r) /\ r.prior)
            => /\ r.cached_reply.some
               /\ r.pc = "done"
               /\ r.sent = 0

\* C2: get_invite(k) returns an entry exactly when the invites namespace
\* holds a fresh entry for k, and get_user(k) exactly when the users
\* namespace does; neither depends on the other namespace.
C2_NamespacesIndependent ==
    \A k \in DOMAIN users \cup DOMAIN invites :
        /\ get_invite(k).some <=> FreshIn(invites, k)
        /\ get_user(k).some <=> FreshIn(users, k)

\* C3: whenever a cache get returns an entry, that entry is younger than
\* CACHE_DURATION at that moment, and an entry that has reached
\* CACHE_DURATION is reported as a miss although it is still in the map.
C3_Freshness ==
    /\ \A cache \in Namespaces : \A k \in DOMAIN cache :
          get(cache, k).some <=> now - cache[k].cached_at < Ttl
    /\ \A r \in Running :
          /\ r.cached_reply.some => r.seen = "fresh"
          /\ r.seen = "stale" => ~r.cached_reply.some

\* a request was answered from the cache while, later, an entry that has
\* outlived CACHE_DURATION is still stored and is not returned
C3_Witness ==
    /\ \E r \in Running : r.cached_reply.some /\ r.seen = "fresh"
    /\ \E k \in DOMAIN users :
          now - users[k].cached_at >= Ttl /\ ~get_user(k).some

\* C4: a request that got its ticket and was sent upstream has reported to
\* the ticket exactly once when its task ends: Some(headers) when a
\* response arrived, None when the transport failed.
C4_ExactlyOneReport ==
    \A r \in Running :
        (r.pc = "done" /\ r.ticket /\ r.sent > 0)
            => /\ Len(r.reports) = 1
               /\ r.reports[1] = IF r.parts.status # 0 THEN "Some" ELSE "None"

\* C5: no key of the users namespace contains "@me"; a UsersId request
\* whose canonical route contains "@me" runs no cache getter, is never
\* answered from the cache and stores nothing, so whenever it is answered
\* its answer came from upstream.
C5_SelfUserNeverCached ==
    /\ \A k \in DOMAIN users : ~Contains(k, "@me")
    /\ \A r \in Running :
          (r.path = "UsersId" /\ Contains(r.api_route, "@me"))
              => /\ r.lookup = "none"
                 /\ ~r.cached_reply.some
                 /\ r.inserted = "none"
                 /\ r.result.kind = "Ok" => r.sent = 1

\* two requests for the caller's own user were both fetched upstream with a
\* cacheable status and neither left an entry behind
C5_Witness ==
    /\ \E r \in Running :
          /\ r.api_route = "/api/v10/users/@me"
          /\ r.pc = "done" /\ r.result.kind = "Ok"
          /\ Buffered(r.parts.status)
          /\ tasks[r] = 2
    /\ DOMAIN users = {}

AllEntries == UNION {{cache[k] : k \in DOMAIN cache} : cache \in Namespaces}

\* C6: no stored entry, in either namespace, carries one of the four bucket
\* headers, whatever the upstream sent, repeated header lines included.
C6_NoBucketHeadersStored ==
    \A e \in AllEntries : \A i \in 1..Len(BucketHeaders) :
        BucketHeaders[i] \notin HeaderNames(e.headers)

\* an entry is stored that came from a response with a repeated bucket
\* header, and it kept the headers that are not bucket headers
C6_Witness ==
    \E r \in Running :
        /\ r.inserted = "insert_user"
        /\ HeaderCount(r.parts.headers, "x-ratelimit-remaining", "4") = 1
        /\ HeaderCount(r.parts.headers, "x-ratelimit-remaining", "3") = 1
        /\ r.api_route \in DOMAIN users
        /\ users[r.api_route].headers = r.stored
        /\ "x-ratelimit-limit" \in HeaderNames(r.stored)

CacheableStatus(status) == (200 <= status /\ status <= 299) \/ status = 404

\* key k of the namespace was inserted or replaced by this step
Written(cache, cacheAfter, k) ==
    k \in DOMAIN cacheAfter /\ (k \notin DOMAIN cache \/ cacheAfter[k] # cache[k])

\* task r finishes reading its body in this step
WritesThrough(r) == r.pc = "body" /\ \E d \in BagToSet(tasks') : tasks' = Moved(r, d)

\* C7: an entry enters a namespace only as the write-through of a request
\* whose upstream status is 2xx or 404 and whose route is cacheable, under
\* that request's canonical route and in the namespace of its route; no
\* other route or status ever stores anything.
C7_InsertOnlyOnWriteThrough ==
    [][ /\ \A k \in DOMAIN users' :
              Written(users, users', k)
                  => \E r \in Running :
                        /\ WritesThrough(r)
                        /\ r.api_route = k
                        /\ r.path = "UsersId" /\ ~Contains(k, "@me")
                        /\ CacheableStatus(r.parts.status)
                        /\ users'[k].statuscode = r.parts.status
        /\ \A k \in DOMAIN invites' :
              Written(invites, invites', k)
                  => \E r \in Running :
                        /\ WritesThrough(r)
                        /\ r.api_route = k
                        /\ r.path = "InvitesCode"
                        /\ CacheableStatus(r.parts.status)
                        /\ invites'[k].statuscode = r.parts.status
      ]_vars

\* an invite answered 404 is stored in invites, a user answered 200 is
\* stored in users, and nothing else is stored
C7_Witness ==
    /\ \E k \in DOMAIN invites : invites[k].statuscode = 404
    /\ \E k \in DOMAIN users : users[k].statuscode = 200
    /\ \A r \in Running : r.pc = "done"

\* every line of header map h occurs at least as often in header map g
SubMultimap(h, g) ==
    \A n \in HeaderNames(h) : \A v \in HeaderValues(h) :
        HeaderCount(h, n, v) <= HeaderCount(g, n, v)

\* C8: a request answered from the cache is answered at once, from the
\* stored bytes, status and headers, and neither waits for a ticket nor
\* sends an upstream request.
C8_HitTakesNoTicket ==
    \A r \in Running :
        r.cached_reply.some
            => /\ r.pc = "done"
               /\ ~r.ticket
               /\ r.sent = 0
               /\ r.reports = << >>
               /\ r.result.kind = "Ok"
               /\ r.result.response.body = r.cached_reply.val.bytes
               /\ r.result.response.status = r.cached_reply.val.statuscode
               /\ SubMultimap(r.result.response.headers,
                              r.cached_reply.val.headers)

\* a request was answered from the cache
C8_Witness ==
    \E r \in Running :
        /\ r.cached_reply.some
        /\ r.pc = "done"
        /\ r.result.response.status = 200
        /\ r.result.response.body # ""

\* C9: the reply to a cache hit has the stored body, the stored status and
\* the stored header lines, each as often as it was stored.
C9_HitRoundTrip ==
    \A r \in Running :
        (r.cached_reply.some /\ r.pc = "done")
            => /\ r.result.response.body = r.cached_reply.val.bytes
               /\ r.result.response.status = r.cached_reply.val.statuscode
               /\ SubMultimap(r.result.response.headers,
                              r.cached_reply.val.headers)
               /\ SubMultimap(r.cached_reply.val.headers,
                              r.result.response.headers)

\* the length of the run of decimal digits that s starts with
RECURSIVE DigitRun(_)
DigitRun(s) ==
    IF Len(s) > 0 /\ IsDigit(CharAt(s, 1))
    THEN 1 + DigitRun(SubSeq(s, 2, Len(s)))
    ELSE 0

\* the normalisation as specified: "/api/vN" is split off when the path
\* starts with it, N being a decimal number that fits 8 bits and ends the
\* path segment; otherwise the prefix is "/api" and a leading "/api" is
\* dropped from the path
SpecifiedNormalise(p) ==
    LET afterV == StripPrefix(p, "/api/v")
        n == IF afterV.some THEN DigitRun(afterV.val) ELSE 0
        versioned ==
            /\ afterV.some
            /\ n > 0
            /\ ParseUnsigned(SubSeq(afterV.val, 1, n), U8Max).some
            /\ (n = Len(afterV.val) \/ CharAt(afterV.val, n + 1) = "/")
    IN IF versioned
       THEN << SubSeq(p, 1, Len("/api/v") + n),
               SubSeq(p, Len("/api/v") + n + 1, Len(p)) >>
       ELSE IF StartsWith(p, "/api")
            THEN << "/api", SubSeq(p, Len("/api") + 1, Len(p)) >>
            ELSE << "/api", p >>

\* C10: for every request path the pipeline normalises, the prefix and the
\* trimmed path are the specified ones; in particular the prefix is "/api"
\* or "/api/vN".
C10_NormalizePath ==
    \A r \in Running :
        r.method \in SupportedMethods
            => << r.api_path, r.trimmed_path >>
                   = SpecifiedNormalise(r.request_path)

\* a request of the forwarding pipeline whose method is none of the five
UnsupportedMethod(r) ==
    /\ r.handler = "handle_request"
    /\ r.method \notin {"GET", "PUT", "POST", "PATCH", "DELETE"}

\* C11: a request of the forwarding pipeline whose method is not GET, PUT,
\* POST, PATCH or DELETE ends with InvalidMethod before its path is
\* normalised or classified: no cache getter and no cache insert runs, no
\* ticket is taken, nothing is sent upstream, and the step in which it
\* arrives leaves both namespaces as they were.
C11_InvalidMethodTouchesNothing ==
    [][\A r \in BagToSet(tasks') :
         UnsupportedMethod(r) =>
           /\ r.pc = "done"
           /\ r.result = Err("InvalidMethod")
           /\ r.api_path = "" /\ r.trimmed_path = "" /\ r.path = ""
           /\ r.lookup = "none" /\ ~r.cached_reply.some
           /\ r.inserted = "none"
           /\ ~r.ticket /\ r.sent = 0 /\ r.reports = << >>
           /\ r.upstream = NoRequest
           /\ tasks' = tasks (+) SetToBag({r}) =>
                 users' = users /\ invites' = invites]_vars

\* an unsupported method was refused while the cache held an entry
C11_Witness ==
    /\ users # EmptyMap
    /\ \E r \in Running : UnsupportedMethod(r) /\ r.pc = "done"

\* C14: GET /health is answered by the proxy itself with status 200 and the
\* body "Proxy running!", with no cache getter, ticket or upstream request,
\* and every other combination of path and method, a method other than GET
\* on /health included, is handed to the forwarding pipeline.
C14_OnlyGetHealthIsLocal ==
    \A r \in Running :
      IF r.method = "GET" /\ r.request_path = "/health"
      THEN /\ r.handler = "handle_health"
           /\ r.pc = "done"
           /\ r.result = Ok([status |-> 200, headers |-> << >>,
                             body |-> "Proxy running!"])
           /\ r.lookup = "none" /\ r.inserted = "none"
           /\ ~r.ticket /\ r.sent = 0
      ELSE r.handler = "handle_request"
\* the values a header map holds for a name, in order
ValuesOf(h, name) ==
    IF HeaderIndex(h, name) = 0 THEN << >> ELSE h[HeaderIndex(h, name)].values

\* the headers the rewrite names
Rewritten ==
    {"authorization", "host", "connection", "keep-alive", "proxy-connection",
     "transfer-encoding", "upgrade"}

\* C12: the request sent upstream carries exactly one Authorization value,
\* the effective bearer the token registry returned for the client's
\* Authorization header, exactly one Host value, the upstream host, none of
\* Connection, Keep-Alive, Proxy-Connection, Transfer-Encoding and Upgrade,
\* and the URI https://discord.com + api_path + trimmed_path + ("?" + query
\* when the request has one); its method, its body and the values of every
\* other header are those of the client's request.
C12_UpstreamRequestRewrite ==
    \A r \in Running :
      r.sent > 0 =>
        LET up == r.upstream IN
        /\ r.token = get_or_insert(AuthorizationOf(r.headers))
        /\ ValuesOf(up.headers, "authorization") = << r.token >>
        /\ ValuesOf(up.headers, "host") = << "discord.com" >>
        /\ HeaderNames(up.headers) \cap Rewritten = {"authorization", "host"}
        /\ up.uri = "https://discord.com" \o r.api_path \o r.trimmed_path
                       \o (IF r.query.some THEN "?" \o r.query.val ELSE "")
        /\ up.method = r.method
        /\ up.body = r.body
        /\ HeaderNames(up.headers) \ Rewritten
             = HeaderNames(r.headers) \ Rewritten
        /\ \A name \in HeaderNames(r.headers) \ Rewritten :
             ValuesOf(up.headers, name) = ValuesOf(r.headers, name)

\* a request with a query, two Authorization values and two Upgrade values
\* went upstream
C12_Witness ==
    \E r \in Running :
      /\ r.sent > 0
      /\ r.query.some
      /\ Len(ValuesOf(r.headers, "authorization")) = 2
      /\ Len(ValuesOf(r.headers, "upgrade")) = 2
      /\ r.body # ""
\* the entries of a namespace younger than CACHE_DURATION
FreshPart(cache) ==
    [k \in {k \in DOMAIN cache : now - cache[k].cached_at < Ttl} |-> cache[k]]

\* the canonical routes of the cached requests
CachedRoutes == {"/api/v10/invites/ABCD", "/api/v10/users/1"}

StaleIn(cache, key) ==
    key \in DOMAIN cache /\ now - cache[key].cached_at >= Ttl

\* C13: a sweep of a namespace removes every entry whose age is
\* CACHE_DURATION or more and no younger entry, so that right after it the
\* namespace holds no stale entry, and it leaves the other namespace alone;
\* a round sweeps both namespaces; and with the reaper scheduled fairly an
\* entry that has become stale is eventually removed, unless an insert
\* overwrites it first.
C13_ReaperRemovesExactlyStale ==
    /\ [][/\ reaper_pc = "tick" /\ reaper_pc' = "users" =>
              /\ invites' = FreshPart(invites)
              /\ \A k \in DOMAIN invites' : now' - invites'[k].cached_at < Ttl
              /\ users' = users
          /\ reaper_pc = "users" /\ reaper_pc' = "tick" =>
              /\ users' = FreshPart(users)
              /\ \A k \in DOMAIN users' : now' - users'[k].cached_at < Ttl
              /\ invites' = invites]_vars
    /\ (reaper_pc = "users") ~> (reaper_pc = "tick")
    /\ \A k \in CachedRoutes :
         /\ StaleIn(invites, k) ~> ~StaleIn(invites, k)
         /\ StaleIn(users, k) ~> ~StaleIn(users, k)

\* both namespaces were written for their route, CACHE_DURATION has passed
\* since, and a round of the reaper has left neither entry behind
C13_Witness ==
    /\ reaper_pc = "tick"
    /\ \A k \in CachedRoutes :
         k \in DOMAIN completed /\ now - completed[k] >= Ttl
    /\ users = EmptyMap /\ invites = EmptyMap
\* C15: a request that is cancelled after its ticket was granted still has a
\* report made for that ticket, with None or with the response's headers: no
\* cancelled request leaves a granted ticket without a report.
C15_CancelledTicketReported ==
    \A r \in Running :
      r.pc = "dropped" /\ r.ticket => Len(r.reports) = 1
\* a request the forwarding pipeline did not answer from the cache
NotServedFromCache(r) ==
    /\ r.handler = "handle_request"
    /\ r.path # ""
    /\ ~(r.cached_reply.some /\ r.sent = 0 /\ r.result.kind = "Ok")

\* C16: for a request that is not served from the cache, the upstream
\* request is sent only after wait_for_ticket granted the ticket; when
\* wait_for_ticket fails the request ends with AcquiringTicket and nothing
\* was sent; and the response's headers have been reported to the ticket
\* before the body is awaited, before any cache insert and before the
\* response is returned.
C16_TicketThenSendThenReport ==
    \A r \in Running :
      NotServedFromCache(r) =>
        /\ r.sent > 0 => r.ticket
        /\ r.pc = "upstream" => r.ticket /\ r.sent = 1
        /\ r.pc = "done" /\ ~r.ticket =>
              r.result = Err("AcquiringTicket") /\ r.sent = 0
        /\ r.result = Err("AcquiringTicket") => r.sent = 0 /\ ~r.ticket
        /\ r.pc = "body" => Len(r.reports) = 1
        /\ r.inserted # "none" => Len(r.reports) = 1
        /\ r.result.kind = "Ok" => Len(r.reports) = 1
        /\ r.parts # NoResponse => Len(r.reports) = 1 /\ r.sent = 1

\* one request failed to get its ticket, another wrote its response through
C16_Witness ==
    /\ \E r \in Running : r.result = Err("AcquiringTicket")
    /\ \E r \in Running :
         r.inserted # "none" /\ r.result.kind = "Ok" /\ r.reports = << "Some" >>

\* C17: once the head of the response has been received and reported, a
\* request whose route is not cacheable, or whose status is neither 2xx nor
\* 404, has its response returned as it is: its body is not awaited, it
\* cannot end with RequestIssue, and status, headers and body are the
\* upstream's.
C17_UncachedResponsePassesThrough ==
    \A r \in Running :
      /\ r.parts # NoResponse
      /\ ~CacheableRoute(r) \/ ~CacheableStatus(r.parts.status)
      => /\ r.pc = "done"
         /\ r.result = Ok(r.parts)
\* the lock a request task is waiting for
WantedByTask(r) ==
    IF r.pc = "get_wait"
    THEN {[lock |-> LockOfGetter(r.lookup), mode |-> "read"]}
    ELSE IF r.pc = "insert_wait"
    THEN {[lock |-> LockOfInsert(InsertFor(r.path, r.api_route)),
           mode |-> "write"]}
    ELSE {}

\* the lock the reaper is waiting for
WantedByReaper ==
    IF reaper_pc = "tick" THEN {[lock |-> "invites", mode |-> "write"]}
    ELSE IF reaper_pc = "users" THEN {[lock |-> "users", mode |-> "write"]}
    ELSE {}

Granted(w) == IF w.mode = "read" THEN CanRead(w.lock) ELSE CanWrite(w.lock)

\* how many tasks hold the guard g
HoldersOf(g) ==
    LET holding == {r \in Running : g \in HeldByTask(r)}
        count[S \in SUBSET holding] ==
            IF S = {} THEN 0
            ELSE LET r == CHOOSE x \in S : TRUE
                 IN CopiesIn(r, tasks) + count[S \ {r}]
    IN count[holding] + (IF g \in HeldByReaper(reaper_pc) THEN 1 ELSE 0)

\* C18: no task ever holds the locks of both namespaces; the reaper holds
\* the write lock of a namespace only while it sweeps that namespace and has
\* released it before it asks for the other; a get holds exactly one read
\* lock and an insert exactly one write lock, and a request task holds no
\* lock at an await point; a writer excludes every other holder; and no
\* task waits for a lock while it holds one, so whenever a task waits for a
\* lock some task can take a step: the cache cannot deadlock.
C18_LockDiscipline ==
    /\ \A r \in Running :
         /\ Cardinality({g.lock : g \in HeldByTask(r)}) <= 1
         /\ r.pc = "get_held" =>
               HeldByTask(r) = {[lock |-> "users", mode |-> "read"]}
         /\ r.pc = "insert_held" =>
               \E lock \in {"users", "invites"} :
                 HeldByTask(r) = {[lock |-> lock, mode |-> "write"]}
         /\ r.pc \in {"ticket", "upstream", "body", "done"} =>
               HeldByTask(r) = {}
         /\ WantedByTask(r) # {} => HeldByTask(r) = {}
    /\ Cardinality({g.lock : g \in HeldByReaper(reaper_pc)}) <= 1
    /\ HeldByReaper(reaper_pc) =
         (IF reaper_pc = "invites_held"
          THEN {[lock |-> "invites", mode |-> "write"]}
          ELSE IF reaper_pc = "users_held"
          THEN {[lock |-> "users", mode |-> "write"]}
          ELSE {})
    /\ WantedByReaper # {} => HeldByReaper(reaper_pc) = {}
    /\ \A lock \in {"users", "invites"} :
         LET writers == HoldersOf([lock |-> lock, mode |-> "write"])
             readers == HoldersOf([lock |-> lock, mode |-> "read"])
         IN writers <= 1 /\ (writers = 1 => readers = 0)
    /\ (WantedByReaper # {} \/ \E r \in Running : WantedByTask(r) # {}) =>
         \/ \E w \in WantedByReaper : Granted(w)
         \/ \E r \in Running : \E w \in WantedByTask(r) : Granted(w)
         \/ reaper_pc \in {"invites_held", "users_held"}
         \/ \E r \in Running : r.pc \in {"get_held", "insert_held"}

\* the reaper waits for the lock of users while one request reads under it
\* and another waits to write under it
C18_Witness ==
    /\ reaper_pc = "users"
    /\ \E r \in Running : r.pc = "get_held"
    /\ \E r \in Running :
         r.pc = "insert_wait" /\ WantedByTask(r) =
                                  {[lock |-> "users", mode |-> "write"]}
\* the entry a task's insert commits
Committed(r) ==
    [cached_at |-> now, bytes |-> r.parts.body,
     headers |-> StripBucketHeaders(r.parts.headers),
     statuscode |-> r.parts.status]

\* the step in which the task r, holding its write lock, commits its insert
Commits(r) ==
    /\ r.pc = "insert_held"
    /\ CopiesIn(r, tasks') < CopiesIn(r, tasks)

\* the namespace an insert writes became cache2 by one insert of r
ReplacedBy(cache, cache2, r) ==
    /\ DOMAIN cache2 = DOMAIN cache \cup {r.api_route}
    /\ cache2[r.api_route] = Committed(r)
    /\ \A k \in DOMAIN cache \ {r.api_route} : cache2[k] = cache[k]
    /\ get(cache2, r.api_route) =
         Some([bytes |-> r.parts.body,
               headers |-> StripBucketHeaders(r.parts.headers),
               statuscode |-> r.parts.status])

\* C19: an insert replaces the entry of its key as a whole: bytes, headers
\* and status become those of this insert and cached_at becomes the time
\* of this insert, whether or not the key was present; every other key and
\* the other namespace are untouched; and a get of that namespace made
\* right after returns exactly this insert's value.  So after inserts for
\* one key in any order of their write locks, the key has one entry, whole
\* from the last insert.
C19_LastWriterWins ==
    [][\A r \in Running :
         Commits(r) =>
           IF InsertFor(r.path, r.api_route) = "insert_user"
           THEN ReplacedBy(users, users', r) /\ invites' = invites
           ELSE ReplacedBy(invites, invites', r) /\ users' = users]_vars

\* two requests for one route wrote different responses through, and the
\* entry is the one of them written last
C19_Witness ==
    \E r1 \in Running, r2 \in Running :
      /\ r1.inserted = "insert_user" /\ r2.inserted = "insert_user"
      /\ r1.api_route = r2.api_route
      /\ r1.parts.status # r2.parts.status
      /\ r1.api_route \in DOMAIN users
      /\ users[r1.api_route].statuscode = r2.parts.status
      /\ users[r1.api_route].bytes = r2.parts.body
      /\ users[r1.api_route].cached_at = now
      /\ now > 0
\* what a client may send as Authorization
Credentials == {Some("Bot A"), Some("Bot B"), Some("Bot caf<E9>")}

IsNotAuthorization(line) == line[1] # "authorization"

\* the request with its Authorization header replaced by the credential
WithAuthorization(request, credential) ==
    LET others == SelectSeq(request.lines, IsNotAuthorization) IN
    [request EXCEPT !.lines =
        IF credential.some
        THEN << <<"authorization", credential.val>> >> \o others
        ELSE others]

\* what the cache contributes to the treatment of a request
CacheView(r) ==
    [pc |-> r.pc, path |-> r.path, api_route |-> r.api_route,
     lookup |-> r.lookup, seen |-> r.seen, cached_reply |-> r.cached_reply,
     ticket |-> r.ticket, sent |-> r.sent, result |-> r.result]

\* C20: the cache is shared by all bearers.  In every state, two requests
\* that differ only in their Authorization header are treated alike by the
\* cache: the same getter under the same key, the same entry found, both
\* answered from the cache with the same reply or both sent on to the
\* ticket; and a request answered from the cache took no ticket and sent
\* nothing upstream whatever its bearer.
C20_CacheSharedAcrossBearers ==
    /\ \A request \in CachedRequests :
         LET anonymous == CacheView(Dispatch(request)) IN
         \A c \in Credentials :
           CacheView(Dispatch(WithAuthorization(request, c))) = anonymous
    /\ \A r \in Running :
         r.cached_reply.some /\ r.result.kind = "Ok" /\ r.parts = NoResponse
           => ~r.ticket /\ r.sent = 0 /\ r.upstream = NoRequest

\* a response fetched with one bearer was served from the cache to a
\* request carrying another bearer
C20_Witness ==
    \E r1 \in Running, r2 \in Running :
      /\ r1.token # r2.token
      /\ r1.api_route = r2.api_route
      /\ r1.inserted = "insert_user"
      /\ r2.cached_reply.some /\ r2.pc = "done" /\ r2.sent = 0
      /\ r2.result.kind = "Ok"
      /\ r2.result.response.body = r1.parts.body
      /\ r2.result.response.status = r1.parts.status
\* the request sent with another method and with or without a query
Variants(request) ==
    {[request EXCEPT !.method = method] :
        method \in {"DELETE", "PATCH", "POST", "PUT"}}
    \cup {[request EXCEPT !.method = method,
                          !.query = Some("with_counts=true")] :
             method \in {"DELETE", "GET"}}

\* C21: what the cache does for a request depends on its route variant and
\* its canonical route only.  In every state a request for an invite or for
\* a user other than @me is treated by the cache as the GET without query
\* is, be its method DELETE, PATCH, POST or PUT or does it carry a query:
\* the same getter under the same key finds the same entry, and all are
\* answered from it or all go on to the ticket.  A 2xx or 404 response whose
\* body was read is inserted by the insert of the route whatever the method,
\* and the only keys ever written are the canonical routes, so requests
\* that differ in method or query share one entry.
C21_CacheIgnoresMethodAndQuery ==
    /\ \A request \in CachedRequests :
         LET plain == CacheView(Dispatch(request)) IN
         \A variant \in Variants(request) :
           CacheView(Dispatch(variant)) = plain
    /\ \A r \in Running :
         r.pc = "done" /\ r.result.kind = "Ok" /\ r.parts # NoResponse
         /\ CacheableStatus(r.parts.status) =>
             r.inserted = IF r.path = "InvitesCode" THEN "insert_invite"
                          ELSE "insert_user"
    /\ DOMAIN users \subseteq {"/api/v10/users/1"}
    /\ DOMAIN invites \subseteq {"/api/v10/invites/ABCD"}

\* the response to a DELETE with a query was stored and then served from
\* the cache to a GET without query
C21_Witness ==
    \E r1 \in Running, r2 \in Running :
         /\ r1.method = "DELETE" /\ r1.query.some
         /\ r1.inserted = "insert_user"
         /\ r2.method = "GET" /\ ~r2.query.some
         /\ r2.api_route = r1.api_route
         /\ r2.cached_reply.some /\ r2.pc = "done" /\ r2.sent = 0
         /\ r2.result.kind = "Ok"
         /\ r2.result.response.body = r1.parts.body
\* C22: with metrics enabled the gauge of a namespace never under-reports:
\* in every state it is at least the number of entries of the namespace.
C22_GaugeNeverUnderReports ==
    /\ gauge.users >= Cardinality(DOMAIN users)
    /\ gauge.invites >= Cardinality(DOMAIN invites)
====
